---- MODULE Spec2Model ----
(***************************************************************************)
(* Document analysis of svsal-factory: node classification, citetrails and *)
(* titles (api/v1/docs/analysis.py) and the helpers of api/v1/xutils.py.   *)
(*                                                                         *)
(* A document is a tree of nodes numbered 1..n in document order.  Python  *)
(* strings are sequences of one-character strings, so that concatenation,  *)
(* str(int) and prefixes are computed, not assumed.                        *)
(***************************************************************************)
EXTENDS Integers, Sequences, FiniteSets, TLC

VARIABLES variant, doc, cache, cursor, pc, trail, stored, call, result, text

vars == <<variant, doc, cache, cursor, pc, trail, stored, call, result, text>>

(***************************************************************************)
(* Bounds of the model.                                                    *)
(***************************************************************************)
MaxNodes == 4

MaxMissingIds == 2

MaxStrLen == 4

(***************************************************************************)
(* Python values.                                                          *)
(***************************************************************************)
Str(s) == [kind |-> "str", val |-> s]

Bool(b) == [kind |-> "bool", val |-> b]

None == [kind |-> "None"]

Raise(e) == [kind |-> "raise", exc |-> e]

NoCall == [op |-> "none", node |-> 0]

NoResult == [kind |-> "nothing"]

EmptyStr == << >>

PLACEHOLDER == <<"p", "l", "a", "c", "e", "h", "o", "l", "d", "e", "r">>

STRUCTURAL == <<"s", "t", "r", "u", "c", "t", "u", "r", "a", "l">>

BASIC == <<"b", "a", "s", "i", "c">>

Digits == <<"0", "1", "2", "3", "4", "5", "6", "7", "8", "9">>

RECURSIVE str_int(_)
str_int(n) ==
    IF n < Len(Digits)
    THEN <<Digits[n + 1]>>
    ELSE str_int(n \div Len(Digits)) \o <<Digits[(n % Len(Digits)) + 1]>>

(***************************************************************************)
(* The document tree and the XPath axes the analysis evaluates.            *)
(***************************************************************************)
Nodes == 1..Len(doc.tag)

NonElementTags == {"#comment", "#pi"}

is_element(n) == doc.tag[n] \notin NonElementTags

SeqRange(s) == {s[i] : i \in 1..Len(s)}

Reverse(s) == [i \in 1..Len(s) |-> s[Len(s) + 1 - i]]

\* ancestor::* in document order (outermost first), as lxml returns node sets
RECURSIVE ancestor_axis(_)
ancestor_axis(n) ==
    IF doc.parent[n] = 0
    THEN << >>
    ELSE Append(ancestor_axis(doc.parent[n]), doc.parent[n])

\* preceding-sibling::* in document order; * selects elements only
preceding_sibling_axis(n) ==
    SelectSeq([i \in 1..(n - 1) |-> i],
              LAMBDA m : doc.parent[n] # 0 /\ doc.parent[m] = doc.parent[n] /\ is_element(m))

HasAncestorTagged(n, tags) == \E a \in SeqRange(ancestor_axis(n)) : doc.tag[a] \in tags

(***************************************************************************)
(* Node classification, one grammar per document type.                     *)
(***************************************************************************)
Variants == {"Guidelines", "Projectmembers", "Specialchars"}

Guidelines_structural_node_def(n) ==
    doc.tag[n] = "div" /\ HasAncestorTagged(n, {"text"})

Guidelines_basic_node_def(n) ==
    /\ doc.tag[n] \in {"p", "head", "list"}
    /\ ~ HasAncestorTagged(n, {"p", "head", "list"})

Projectmembers_structural_node_def(n) ==
    doc.tag[n] = "listPerson" /\ HasAncestorTagged(n, {"text"})

Projectmembers_basic_node_def(n) ==
    /\ doc.tag[n] \in {"head", "org", "person"}
    /\ ~ HasAncestorTagged(n, {"head", "org", "person"})

Specialchars_structural_node_def(n) ==
    doc.tag[n] = "charDecl" /\ HasAncestorTagged(n, {"teiHeader"})

Specialchars_basic_node_def(n) ==
    doc.tag[n] = "char"

structural_node_def(v, n) ==
    CASE v = "Guidelines" -> Guidelines_structural_node_def(n)
      [] v = "Projectmembers" -> Projectmembers_structural_node_def(n)
      [] v = "Specialchars" -> Specialchars_structural_node_def(n)

basic_node_def(v, n) ==
    CASE v = "Guidelines" -> Guidelines_basic_node_def(n)
      [] v = "Projectmembers" -> Projectmembers_basic_node_def(n)
      [] v = "Specialchars" -> Specialchars_basic_node_def(n)

is_structural_node(v, n) == structural_node_def(v, n)

\* __basic_node_def + ' and ancestor::*[' + __structural_node_def + ']'
is_basic_node(v, n) ==
    /\ basic_node_def(v, n)
    /\ \E a \in SeqRange(ancestor_axis(n)) : structural_node_def(v, a)

\* get_node_type with the elif test dropped: whatever is not structural is basic
get_node_type_no_elif(v, n) ==
    IF is_structural_node(v, n)
    THEN STRUCTURAL
    ELSE BASIC

get_node_type(v, n) ==
    IF is_structural_node(v, n)
    THEN STRUCTURAL
    ELSE IF is_basic_node(v, n)
         THEN BASIC
         ELSE EmptyStr

(***************************************************************************)
(* Stable identifiers and the citetrail mapping of the document's config.  *)
(***************************************************************************)
NodeId(n) == <<"n">> \o str_int(n)

\* node.xpath('@xml:id') is the list doc.xmlid[n], empty when the attribute is absent
get_xml_id(n) ==
    IF Len(doc.xmlid[n]) = 1
    THEN doc.xmlid[n][1]
    ELSE EmptyStr

\* DocConfig.get_citetrail_mapping: the stored citetrail, or None when absent
get_citetrail_mapping(key) ==
    IF key \in DOMAIN cache
    THEN Str(cache[key])
    ELSE None

\* DocConfig put: performed by the indexing caller
put_citetrail_mapping(key, citetrail) ==
    [k \in (DOMAIN cache) \cup {key} |-> IF k = key THEN citetrail ELSE cache[k]]

EmptyCache == [k \in {} |-> EmptyStr]

\* Python's a + b on str operands; None + str raises TypeError
py_add(a, b) ==
    IF a.kind = "raise"
    THEN a
    ELSE IF b.kind = "raise"
         THEN b
         ELSE IF a.kind = "str" /\ b.kind = "str"
              THEN Str(a.val \o b.val)
              ELSE Raise("TypeError")

(***************************************************************************)
(* Citetrails.                                                             *)
(***************************************************************************)
\* citetrail_preceding filtered with is_basic_node instead of get_node_type
citetrail_preceding_basic_only(n) ==
    SelectSeq(preceding_sibling_axis(n), LAMBDA prec : is_basic_node("Guidelines", prec))

citetrail_preceding(n) ==
    SelectSeq(preceding_sibling_axis(n), LAMBDA prec : get_node_type("Guidelines", prec) # EmptyStr)

citetrail_ancestors(n) ==
    SelectSeq(ancestor_axis(n), LAMBDA anc : get_node_type("Guidelines", anc) # EmptyStr)

\* make_citetrail taking the first of the ancestors in document order (the
\* outermost) as the citetrail parent: the list is not reversed
make_citetrail_outermost_parent(n) ==
    LET cite == str_int(Len(citetrail_preceding(n)) + 1)
    IN  IF Len(citetrail_ancestors(n)) # 0
        THEN LET citetrail_parent == citetrail_ancestors(n)[1]
                 cp_citetrail == get_citetrail_mapping(get_xml_id(citetrail_parent))
             IN  py_add(py_add(cp_citetrail, Str(<<".">>)), Str(cite))
        ELSE Str(cite)

\* make_citetrail looking the parent's citetrail up under the node's own id
make_citetrail_own_id(n) ==
    LET cite == str_int(Len(citetrail_preceding(n)) + 1)
    IN  IF Len(citetrail_ancestors(n)) # 0
        THEN LET cp_citetrail == get_citetrail_mapping(get_xml_id(n))
             IN  py_add(py_add(cp_citetrail, Str(<<".">>)), Str(cite))
        ELSE Str(cite)

GuidelinesAnalysis_make_citetrail(n) ==
    LET cite == str_int(Len(citetrail_preceding(n)) + 1)
    IN  IF Len(citetrail_ancestors(n)) # 0
        THEN LET citetrail_parent == Reverse(citetrail_ancestors(n))[1]
                 cp_citetrail == get_citetrail_mapping(get_xml_id(citetrail_parent))
             IN  py_add(py_add(cp_citetrail, Str(<<".">>)), Str(cite))
        ELSE Str(cite)

ProjectmembersAnalysis_make_citetrail(n) == Str(PLACEHOLDER)

SpecialcharsAnalysis_make_citetrail(n) == Str(PLACEHOLDER)

make_citetrail(v, n) ==
    CASE v = "Guidelines" -> GuidelinesAnalysis_make_citetrail(n)
      [] v = "Projectmembers" -> ProjectmembersAnalysis_make_citetrail(n)
      [] v = "Specialchars" -> SpecialcharsAnalysis_make_citetrail(n)

(***************************************************************************)
(* Titles.                                                                 *)
(***************************************************************************)
\* exists(elem, xpath_expr): number of required positional parameters
exists_params == 2

\* a call of exists with the positional arguments args; value is what the
\* body returns when the arguments bind
call_exists(args, value) ==
    IF Len(args) # exists_params
    THEN Raise("TypeError")
    ELSE Bool(value)

HasChildTagged(n, tags) == \E m \in Nodes : doc.parent[m] = n /\ doc.tag[m] \in tags

GuidelinesAnalysis_make_title(n) == Str(PLACEHOLDER)

ProjectmembersAnalysis_make_title(n) == Str(PLACEHOLDER)

\* exists is called with the XPath expression only; the branches below the
\* calls are what the method would do had the calls bound.  'teiheader' in
\* the first branch's path matches no element (names are case-sensitive), so
\* [0] indexes an empty list; desc/text() is the child's text, not modelled
\* beyond its presence.
SpecialcharsAnalysis_make_title(n) ==
    LET c1 == call_exists(<<"self::tei:charDecl">>, doc.tag[n] = "charDecl")
        c2 == call_exists(<<"self::tei:char/tei:desc">>,
                          doc.tag[n] = "char" /\ HasChildTagged(n, {"desc"}))
    IN  IF c1.kind = "raise"
        THEN c1
        ELSE IF c1.val
             THEN Raise("IndexError")
             ELSE IF c2.kind = "raise"
                  THEN c2
                  ELSE IF c2.val
                       THEN Str(<<"d", "e", "s", "c">>)
                       ELSE None

make_title(v, n) ==
    CASE v = "Guidelines" -> GuidelinesAnalysis_make_title(n)
      [] v = "Projectmembers" -> ProjectmembersAnalysis_make_title(n)
      [] v = "Specialchars" -> SpecialcharsAnalysis_make_title(n)

(***************************************************************************)
(* xutils.is_more_than_whitespace.                                         *)
(***************************************************************************)
Whitespace == {" ", "\t", "\n"}

\* re.match(r'\S', string): a match only at the start of the string
re_match_nonspace(string) ==
    IF Len(string) >= 1 /\ string[1] \notin Whitespace
    THEN [kind |-> "match", start |-> 0]
    ELSE None

is_more_than_whitespace(string) == re_match_nonspace(string).kind # "None"

(***************************************************************************)
(* Documents the analysis is run on.                                       *)
(***************************************************************************)
GuidelinesTags == {"text", "div", "p", "head", "list", "#comment"}

ProjectmembersTags == {"text", "listPerson", "head", "org", "person", "#pi"}

SpecialcharsTags == {"teiHeader", "charDecl", "char", "desc", "#comment"}

IndexTags == {"text", "div", "p", "list", "note", "#comment"}

IndexInnerTags == IndexTags \ {"text"}

VariantTags(v) ==
    CASE v = "Guidelines" -> GuidelinesTags
      [] v = "Projectmembers" -> ProjectmembersTags
      [] v = "Specialchars" -> SpecialcharsTags

StrChars == {" ", "\t", "a"}

\* parents of a tree whose nodes are numbered in document order
WellFormedParents(p, n) ==
    /\ p[1] = 0
    /\ \A i \in 2..n : p[i] >= 1 /\ p[i] < i /\ \A j \in (p[i] + 1)..(i - 1) : p[j] >= p[i]

\* the root is an element, and only elements have children
WellFormedTags(t, p, n) ==
    /\ t[1] \notin NonElementTags
    /\ \A i \in 2..n : t[p[i]] \notin NonElementTags

\* xml:id attributes of a document: every element carries its own xml:id,
\* except that at most `missing` elements carry none, or that one element
\* repeats the xml:id of an earlier one (when `missing` > 0); comments and
\* processing instructions carry no attributes
IdChoices(t, n, missing) ==
    LET elements == {i \in 1..n : t[i] \notin NonElementTags}
        own(i) == IF i \in elements THEN <<NodeId(i)>> ELSE << >>
    IN  {[i \in 1..n |-> IF i \in S THEN << >> ELSE own(i)] :
            S \in {T \in SUBSET elements : Cardinality(T) <= missing}}
        \cup
        {[i \in 1..n |-> IF i = d[2] THEN <<NodeId(d[1])>> ELSE own(i)] :
            d \in {e \in elements \X elements : e[1] < e[2] /\ missing > 0}}

InitDoc(roots, tags, missing) ==
    \E n \in 1..MaxNodes :
        \E p \in [1..n -> 0..(n - 1)] :
            /\ WellFormedParents(p, n)
            /\ \E t \in [1..n -> roots \cup tags] :
                /\ t[1] \in roots
                /\ \A i \in 2..n : t[i] \in tags
                /\ WellFormedTags(t, p, n)
                /\ \E x \in IdChoices(t, n, missing) :
                    doc = [tag |-> t, parent |-> p, xmlid |-> x]

NoDoc == [tag |-> <<"TEI">>, parent |-> <<0>>, xmlid |-> << << >> >>]

(***************************************************************************)
(* Spec: a call of the analysis on a node of a document of any type.  The  *)
(* operations change no state, so a behaviour makes one call on the        *)
(* document as loaded.                                                     *)
(***************************************************************************)
Init ==
    /\ variant \in Variants
    /\ InitDoc(VariantTags(variant), VariantTags(variant), 0)
    /\ cache = EmptyCache
    /\ cursor = 0
    /\ pc = "idle"
    /\ trail = << >>
    /\ stored = {}
    /\ call = NoCall
    /\ result = NoResult
    /\ text = EmptyStr

IsBasicNode(n) ==
    /\ call = NoCall
    /\ call' = [op |-> "is_basic_node", node |-> n]
    /\ result' = Bool(is_basic_node(variant, n))
    /\ UNCHANGED <<variant, doc, cache, cursor, pc, trail, stored, text>>

GetNodeType(n) ==
    /\ call = NoCall
    /\ call' = [op |-> "get_node_type", node |-> n]
    /\ result' = Str(get_node_type(variant, n))
    /\ UNCHANGED <<variant, doc, cache, cursor, pc, trail, stored, text>>

MakeTitle(n) ==
    /\ call = NoCall
    /\ call' = [op |-> "make_title", node |-> n]
    /\ result' = make_title(variant, n)
    /\ UNCHANGED <<variant, doc, cache, cursor, pc, trail, stored, text>>

MakeCitetrail(n) ==
    /\ call = NoCall
    /\ call' = [op |-> "make_citetrail", node |-> n]
    /\ result' = make_citetrail(variant, n)
    /\ UNCHANGED <<variant, doc, cache, cursor, pc, trail, stored, text>>

Next ==
    \/ \E n \in Nodes : IsBasicNode(n)
    \/ \E n \in Nodes : GetNodeType(n)
    \/ \E n \in Nodes : MakeTitle(n)
    \/ \E n \in Nodes : MakeCitetrail(n)

Spec == Init /\ [][Next]_vars

(***************************************************************************)
(* SpecIndex: the indexing pass over a Guidelines document.  The caller    *)
(* visits the nodes in document order, asks for each node's citetrail and  *)
(* stores it under the node's xml:id; IndexSkip is a caller that does not  *)
(* store it.                                                               *)
(***************************************************************************)
InitIndex ==
    /\ variant = "Guidelines"
    /\ InitDoc({"text"}, IndexInnerTags, MaxMissingIds)
    /\ cache = EmptyCache
    /\ cursor = 0
    /\ pc = "idle"
    /\ trail = << >>
    /\ stored = {}
    /\ call = NoCall
    /\ result = NoResult
    /\ text = EmptyStr

\* the caller asks for the next node's citetrail; an exception ends the pass
IndexCall ==
    /\ pc = "idle"
    /\ cursor < Len(doc.tag)
    /\ cursor' = cursor + 1
    /\ call' = [op |-> "make_citetrail", node |-> cursor + 1]
    /\ result' = make_citetrail(variant, cursor + 1)
    /\ trail' = Append(trail, result')
    /\ pc' = IF result'.kind = "raise" THEN "failed" ELSE "called"
    /\ UNCHANGED <<variant, doc, cache, stored, text>>

\* the caller stores the citetrail of a classified node under its xml:id
IndexPersist ==
    /\ pc = "called"
    /\ get_node_type(variant, cursor) # EmptyStr
    /\ cache' = put_citetrail_mapping(get_xml_id(cursor), result.val)
    /\ stored' = stored \cup {cursor}
    /\ pc' = "idle"
    /\ UNCHANGED <<variant, doc, cursor, trail, call, result, text>>

\* the caller moves on without storing; for a classified node this breaks
\* the calling discipline
IndexSkip ==
    /\ pc = "called"
    /\ pc' = "idle"
    /\ UNCHANGED <<variant, doc, cache, cursor, trail, stored, call, result, text>>

NextIndex ==
    \/ IndexCall
    \/ IndexPersist
    \/ IndexSkip

SpecIndex == InitIndex /\ [][NextIndex]_vars

(***************************************************************************)
(* SpecStrings: is_more_than_whitespace on a string.                       *)
(***************************************************************************)
InitStrings ==
    /\ variant = "Guidelines"
    /\ doc = NoDoc
    /\ cache = EmptyCache
    /\ cursor = 0
    /\ pc = "idle"
    /\ trail = << >>
    /\ stored = {}
    /\ call = NoCall
    /\ result = NoResult
    /\ text \in UNION {[1..k -> StrChars] : k \in 0..MaxStrLen}

IsMoreThanWhitespace ==
    /\ call = NoCall
    /\ call' = [op |-> "is_more_than_whitespace", node |-> 0]
    /\ result' = Bool(is_more_than_whitespace(text))
    /\ UNCHANGED <<variant, doc, cache, cursor, pc, trail, stored, text>>

NextStrings == IsMoreThanWhitespace

SpecStrings == InitStrings /\ [][NextStrings]_vars

(***************************************************************************)
(* Vocabulary of the properties.                                           *)
(***************************************************************************)
Classified(n) == get_node_type(variant, n) # EmptyStr

RECURSIVE AncestorSet(_)
AncestorSet(n) ==
    IF doc.parent[n] = 0
    THEN {}
    ELSE {doc.parent[n]} \cup AncestorSet(doc.parent[n])

ClassifiedAncestors(n) == {a \in AncestorSet(n) : Classified(a)}

\* in document order an ancestor precedes its descendants, so the nearest
\* ancestor is the one with the greatest number
NearestClassifiedAncestor(n) ==
    CHOOSE a \in ClassifiedAncestors(n) : \A b \in ClassifiedAncestors(n) : b <= a

Ordinal(n) ==
    1 + Cardinality({m \in 1..(n - 1) : doc.parent[m] = doc.parent[n] /\ Classified(m)})

HasXmlId(n) == doc.xmlid[n] # << >>

XmlIdOf(n) == IF HasXmlId(n) THEN doc.xmlid[n][1] ELSE EmptyStr

\* position of the last "." of s, 0 when s has none
LastDot(s) ==
    LET dots == {i \in 1..Len(s) : s[i] = "."}
    IN  IF dots = {} THEN 0 ELSE CHOOSE i \in dots : \A j \in dots : j <= i

BeforeLastDot(s) == SubSeq(s, 1, LastDot(s) - 1)

LastSegment(s) == SubSeq(s, LastDot(s) + 1, Len(s))

DigitValue(c) == (CHOOSE i \in 1..Len(Digits) : Digits[i] = c) - 1

IsDecimal(s) ==
    /\ Len(s) >= 1
    /\ \A i \in 1..Len(s) : s[i] \in SeqRange(Digits)
    /\ Len(s) > 1 => s[1] # "0"

RECURSIVE DecimalValue(_)
DecimalValue(s) ==
    IF Len(s) = 0
    THEN 0
    ELSE DecimalValue(SubSeq(s, 1, Len(s) - 1)) * Len(Digits) + DigitValue(s[Len(s)])

IsProperPrefix(a, b) == Len(a) < Len(b) /\ SubSeq(b, 1, Len(a)) = a

Returned == pc \in {"called", "failed"}

\* the calling discipline so far: every classified node the caller has left
\* behind has its citetrail stored
Disciplined ==
    \A n \in 1..cursor : (Classified(n) /\ (n < cursor \/ pc = "idle")) => n \in stored

ClassifiedIdsPresentUnique ==
    /\ \A n \in Nodes : Classified(n) => HasXmlId(n)
    /\ \A n, m \in Nodes : (Classified(n) /\ Classified(m) /\ n # m) => XmlIdOf(n) # XmlIdOf(m)

(***************************************************************************)
(* Properties.                                                             *)
(***************************************************************************)

\* C1: a citetrail is composed from the nearest classified ancestor.  When
\* make_citetrail has returned for node N and N has a classified ancestor
\* whose xml:id has an entry in the mapping, the result is that entry, a ".",
\* and the decimal ordinal of N (1 + the classified preceding siblings), so
\* the ancestor's citetrail is a proper prefix; when N has no classified
\* ancestor the result is the decimal ordinal alone, without a dot.
CitetrailComposition ==
    Returned =>
        IF ClassifiedAncestors(cursor) # {}
        THEN LET key == XmlIdOf(NearestClassifiedAncestor(cursor))
             IN  key \in DOMAIN cache =>
                    /\ result.kind = "str"
                    /\ LastDot(result.val) > 0
                    /\ BeforeLastDot(result.val) = cache[key]
                    /\ IsDecimal(LastSegment(result.val))
                    /\ DecimalValue(LastSegment(result.val)) = Ordinal(cursor)
                    /\ IsProperPrefix(cache[key], result.val)
        ELSE /\ result.kind = "str"
             /\ LastDot(result.val) = 0
             /\ IsDecimal(result.val)
             /\ DecimalValue(result.val) = Ordinal(cursor)

\* C1 witness: a classified node two classified levels deep has its citetrail
\* composed from the inner of its two classified ancestors
CitetrailCompositionWitness ==
    /\ pc = "called"
    /\ Classified(cursor)
    /\ Cardinality(ClassifiedAncestors(cursor)) >= 2
    /\ XmlIdOf(NearestClassifiedAncestor(cursor)) \in DOMAIN cache
    /\ \E a \in ClassifiedAncestors(cursor) :
          /\ XmlIdOf(a) \in DOMAIN cache
          /\ cache[XmlIdOf(a)] # cache[XmlIdOf(NearestClassifiedAncestor(cursor))]

\* C2: citetrails are unique within a document.  Under the calling
\* discipline, with xml:ids present and unique on the classified nodes, no
\* two distinct classified nodes have been given the same citetrail.
CitetrailsUnique ==
    (Disciplined /\ ClassifiedIdsPresentUnique) =>
        \A n, m \in 1..Len(trail) :
            (n # m /\ Classified(n) /\ Classified(m)
                /\ trail[n].kind = "str" /\ trail[m].kind = "str")
            => trail[n].val # trail[m].val

\* C3: under the calling discipline the parent lookup succeeds.  At every
\* make_citetrail call on a node with a classified ancestor, the mapping
\* holds an entry for the nearest classified ancestor and the call returns
\* a citetrail.
ParentLookupSucceeds ==
    (Disciplined /\ ClassifiedIdsPresentUnique /\ Returned
        /\ ClassifiedAncestors(cursor) # {})
    => /\ XmlIdOf(NearestClassifiedAncestor(cursor)) \in DOMAIN cache
       /\ NearestClassifiedAncestor(cursor) \in stored
       /\ result.kind = "str"

\* C3 witness: a disciplined pass has called make_citetrail on a classified
\* node whose nearest classified ancestor is a basic node
ParentLookupSucceedsWitness ==
    /\ pc = "called"
    /\ Disciplined
    /\ ClassifiedIdsPresentUnique
    /\ Classified(cursor)
    /\ ClassifiedAncestors(cursor) # {}
    /\ get_node_type(variant, NearestClassifiedAncestor(cursor)) = BASIC
    /\ result.kind = "str"

\* C4: an unresolved ancestor citetrail is a hard failure.  When
\* make_citetrail is called on a node whose nearest classified ancestor has
\* no entry in the mapping (its citetrail was never stored, or it has no
\* xml:id), the call raises and returns no citetrail.
UnresolvedAncestorRaises ==
    (Returned /\ ClassifiedAncestors(cursor) # {}
        /\ (NearestClassifiedAncestor(cursor) \notin stored
            \/ ~ HasXmlId(NearestClassifiedAncestor(cursor))))
    => result.kind = "raise"

\* C5: an undefined make_citetrail or make_title fails loudly.  The calls
\* ProjectmembersAnalysis.make_citetrail, SpecialcharsAnalysis.make_citetrail,
\* ProjectmembersAnalysis.make_title and GuidelinesAnalysis.make_title raise
\* a not-implemented error and return no placeholder.
StubsFailLoudly ==
    ((call.op = "make_citetrail" /\ variant \in {"Projectmembers", "Specialchars"})
        \/ (call.op = "make_title" /\ variant \in {"Projectmembers", "Guidelines"}))
    => /\ result.kind = "raise"
       /\ result.exc = "NotImplementedError"

\* C6: make_title never raises for a missing title source.
\* SpecialcharsAnalysis.make_title returns normally for every node, and
\* returns None when the node is neither a charDecl nor a char with a desc
\* child.
TitleNeverRaises ==
    (call.op = "make_title" /\ variant = "Specialchars")
    => /\ result.kind # "raise"
       /\ (doc.tag[call.node] # "charDecl"
            /\ ~ (doc.tag[call.node] = "char" /\ HasChildTagged(call.node, {"desc"})))
          => result = None

LeafTags(v) ==
    CASE v = "Guidelines" -> {"p", "head", "list"}
      [] v = "Projectmembers" -> {"head", "org", "person"}
      [] v = "Specialchars" -> {"char"}

\* C8: in every document type is_basic_node(N) is true iff N matches the
\* leaf pattern, no ancestor of N matches the leaf pattern, and some ancestor
\* of N is structural; of two nested leaf elements only the outer is basic.
BasicIffOutermostLeaf ==
    call.op = "is_basic_node" =>
        (result.val <=>
            /\ doc.tag[call.node] \in LeafTags(variant)
            /\ \A a \in AncestorSet(call.node) : doc.tag[a] \notin LeafTags(variant)
            /\ \E a \in AncestorSet(call.node) : is_structural_node(variant, a))

\* C9: sibling ordinals are strictly increasing in document order.  For two
\* classified siblings N1 before N2, the last segment of N1's citetrail is
\* less than the last segment of N2's, whatever lies between them.
SiblingOrdinalsIncrease ==
    \A n1, n2 \in 1..Len(trail) :
        (n1 < n2 /\ doc.parent[n1] = doc.parent[n2]
            /\ Classified(n1) /\ Classified(n2)
            /\ trail[n1].kind = "str" /\ trail[n2].kind = "str")
        => DecimalValue(LastSegment(trail[n1].val)) < DecimalValue(LastSegment(trail[n2].val))

\* C9 witness: two classified siblings with a comment between them, both
\* with a citetrail
SiblingOrdinalsIncreaseWitness ==
    \E n1, n2 \in 1..Len(trail) :
        /\ n1 < n2
        /\ doc.parent[n1] = doc.parent[n2]
        /\ Classified(n1)
        /\ Classified(n2)
        /\ trail[n1].kind = "str"
        /\ trail[n2].kind = "str"
        /\ \E m \in (n1 + 1)..(n2 - 1) : doc.parent[m] = doc.parent[n1] /\ ~ is_element(m)

\* C10: is_more_than_whitespace(s) is true iff s contains a non-whitespace
\* character anywhere.
MoreThanWhitespaceIffAnyNonSpace ==
    call.op = "is_more_than_whitespace" =>
        (result.val <=> \E i \in 1..Len(text) : text[i] \notin Whitespace)

====
